---- MODULE Spec2Model ----
(***************************************************************************)
(* busylight: the LightManager (manager.py) supervising effect tasks       *)
(* (effects/effect.py) on USB lights.                                      *)
(*                                                                         *)
(* A light is opened for exclusive use, so at any time at most one live    *)
(* USBLight object exists per physical device: a light is identified by    *)
(* its device, and opening a device again yields an object with an empty   *)
(* task map.  The task registry of a light (tasks, add_task,               *)
(* cancel_tasks), its writes on() and off(), the probe all_lights() and    *)
(* the presence query live in usblight.py, and the concrete effect classes *)
(* in their own modules; both are outside the analysed sources and are     *)
(* modelled from the specification (sections 3, 4.1, 4.2, 4.3, 6, 7).      *)
(***************************************************************************)
EXTENDS Integers, Sequences, FiniteSets, TLC

\* ---------------------------------------------------------------- bounds
NDev == 2
MaxInstalls == 2
MaxFrames == 3
MaxIds == 2

Dev == 1..NDev
\* positional indices a caller may pass (Python accepts negative ones)
Idx == -1..NDev

\* ------------------------------------------------------------- effects
\* Concrete subclasses of BaseEffect: `colors` is abstract, any list goes.
Names == {"Blink", "Steady", "Empty"}

colors(e) ==
    CASE e = "Blink" -> <<1, 0>>
      [] e = "Steady" -> <<2>>
      [] OTHER -> << >>

\* BaseEffect.name: the class name, used as the key of the task slot.
name(e) == e

\* ------------------------------------------- effect.py, the registry
\* A class name or a query is a string of cased letters <<letter, upper>>.
Letters == {"b", "l", "s", "t", "e", "m"}

Char == Letters \X BOOLEAN

MaxName == 2

\* cls.__name__ (abbreviated to two letters: Bl, St, Em)
ClassName(cls) ==
    CASE cls = "Blink" -> <<<<"b", TRUE>>, <<"l", FALSE>>>>
      [] cls = "Steady" -> <<<<"s", TRUE>>, <<"t", FALSE>>>>
      [] OTHER -> <<<<"e", TRUE>>, <<"m", FALSE>>>>

\* cls.__subclasses__(): Empty derives from Steady, so that the walk recurses
direct_subclasses(cls) ==
    CASE cls = "BaseEffect" -> <<"Blink", "Steady">>
      [] cls = "Steady" -> <<"Empty">>
      [] OTHER -> << >>

\* BaseEffect.subclasses(): BaseEffect itself is left out, every other
\* class is followed by the walk of its own subclasses
RECURSIVE subclasses(_), SubclassesOfAll(_)
subclasses(cls) ==
    (IF cls = "BaseEffect" THEN << >> ELSE <<cls>>)
    \o SubclassesOfAll(direct_subclasses(cls))

SubclassesOfAll(cs) ==
    IF cs = << >> THEN << >>
    ELSE subclasses(Head(cs)) \o SubclassesOfAll(Tail(cs))

\* mutant: names compared as they are
casefold_none(str) == str

\* str.casefold() on cased letters
casefold(str) == [i \in 1..Len(str) |-> <<str[i][1], FALSE>>]

\* BaseEffect.for_name(name): the first subclass whose casefolded name is
\* the casefolded query, "ValueError" when the loop finds none
for_name(str) ==
    LET casefolded_name == casefold(str)
        all == subclasses("BaseEffect")
        hits == {i \in 1..Len(all) : casefold(ClassName(all[i])) = casefolded_name}
    IN IF hits = {} THEN "ValueError"
       ELSE all[CHOOSE i \in hits : \A j \in hits : i <= j]

\* ------------------------------------------------------------- state
VARIABLES
    greedy,      \* LightManager.greedy
    plugged,     \* environment: which physical devices are plugged in
    lightsSet,   \* whether the attribute _lights exists
    lights,      \* _lights: sequence of lights (<< >> when unset)
    tasks,       \* light -> task name -> task record (light.tasks)
    installs,    \* light -> number of add_task calls so far
    wr,          \* the colour writes this step's effect task made
    sent,        \* what on()/off() sent to devices in this step
    dark,        \* device -> the last thing it received was a turn-off
    ctx,         \* "sync": no event loop running; "async": inside a loop
    main,        \* the caller: idle or blocked in asyncio.wait
    op,          \* the operation that produced this state
    arg,         \* the arguments the operation was called with
    exc,         \* the exception the operation raised ("none")
    ret,         \* selected_lights: the list returned
    upd,         \* update: the triple returned
    pre          \* _lights before the operation, and whether it was set

vars == <<greedy, plugged, lightsSet, lights, tasks, installs, wr, sent, dark,
          ctx, main, op, arg, exc, ret, upd, pre>>

NoTask == [st |-> "none", eff |-> "Empty", gen |-> 0, pc |-> "new",
           cur |-> 1, n |-> 0, sleeps |-> 0]

Idle == [pc |-> "idle", awaited |-> {}, timeout |-> FALSE, viaRun |-> FALSE,
         cancelled |-> FALSE, eff |-> "Empty"]


\* --------------------------------------------------------- sequences
Range(s) == {s[i] : i \in 1..Len(s)}

IsPrefix(s, t) == Len(s) <= Len(t) /\ \A i \in 1..Len(s) : s[i] = t[i]

NoDup(s) == \A i, j \in 1..Len(s) : s[i] = s[j] => i = j

RECURSIVE SortedSeq(_)
SortedSeq(S) ==
    IF S = {} THEN << >>
    ELSE LET m == CHOOSE x \in S : \A y \in S : x <= y
         IN <<m>> \o SortedSeq(S \ {m})

SeqsUpTo(S, n) == UNION {[1..k -> S] : k \in 0..n}

\* ------------------------------------------------ USBLight (usblight.py)
\* A task that has not ended.
Running(t) == t.st = "running"

HasRunning(d) == \E nm \in Names : Running(tasks[d][nm])

\* A light object is alive while the manager lists it or while a task's
\* coroutine frame still refers to it; only a dead light frees its device.
Alive(d) == d \in Range(lights) \/ HasRunning(d)

\* Devices a probe can open: plugged in and not held by a live light.
Connectable == {d \in Dev : plugged[d] /\ ~Alive(d)}

\* USBLight.all_lights(): the lights it creates, in enumeration order, given
\* the devices this call has already opened.
all_lights(taken) == SortedSeq(Connectable \ taken)

EmptySlot == [nm \in Names |-> NoTask]

\* the task maps once new light objects exist for the devices in devs
Fresh(tk, devs) == [d \in Dev |-> IF d \in Range(devs) THEN EmptySlot ELSE tk[d]]

is_pluggedin(d) == plugged[d]

is_unplugged(d) == ~plugged[d]

\* light.on(color) and light.off() write to the device: the write raises
\* LightUnavailable when the device is gone
write_raises(d) == is_unplugged(d)

\* light.off() turns the device off and leaves the light's tasks alone
off_slot(slot) == slot

\* --------------------------------------------- LightManager (manager.py)
\* The property `lights`: the devices it has to open when _lights is unset.
LightsProbe(taken) == IF lightsSet THEN << >> ELSE all_lights(taken)

\* Python list indexing: -k..k-1 are valid, negative ones count from the end.
InRange(ls, i) == -Len(ls) <= i /\ i < Len(ls)

At(ls, i) == IF i >= 0 THEN ls[i + 1] ELSE ls[Len(ls) + i + 1]

\* mutant: range(1, len(self.lights))
AllIndicesFromOne(k) == [i \in 1..(k - 1) |-> i]

\* range(0, len(self.lights))
AllIndices(k) == [i \in 1..k |-> i - 1]

\* the loop of selected_lights: IndexError is logged and skipped
RECURSIVE Pick(_, _)
Pick(ls, ix) ==
    IF ix = << >> THEN << >>
    ELSE (IF InRange(ls, Head(ix)) THEN <<At(ls, Head(ix))>> ELSE << >>)
         \o Pick(ls, Tail(ix))

\* mutant: an empty index list is not replaced by the full range
selected_no_default(ls, indices) == Pick(ls, indices)

selected_lights(ls, indices) ==
    Pick(ls, IF indices = << >> THEN AllIndices(Len(ls)) ELSE indices)

\* mutant: NoLightsFound as soon as one index was skipped
no_lights_strict(sel, indices) == Len(sel) < Len(indices)

\* `if selected_lights: return selected_lights` else raise NoLightsFound
no_lights(sel, indices) == sel = << >>

\* mutant: new lights put in front of the known ones
ExtendFront(ls, new) == new \o ls

\* self._lights += new_lights
Extend(ls, new) == ls \o new

\* mutant: the counts returned in another order
UpdateResultSwapped(new, active, inactive) ==
    <<Len(active), Len(new), Len(inactive)>>

\* return len(new_lights), len(active_lights), len(inactive_lights)
UpdateResult(new, active, inactive) == <<Len(new), Len(active), Len(inactive)>>

NoResult == <<-1, -1, -1>>

\* ------------------------------------------- the task slot of a light
NewTask(e, g) == [st |-> "running", eff |-> e, gen |-> g, pc |-> "new",
                  cur |-> 1, n |-> 0, sleeps |-> 0]

\* light.cancel_tasks(): every task is cancelled and the map cleared; a
\* cancelled task never resumes its loop body.
cancel_tasks(slot) == EmptySlot

\* light.add_task(name, coroutine): a task already registered under the name
\* is cancelled, then the new one is started and registered.
add_task(slot, e, g) == [slot EXCEPT ![name(e)] = NewTask(e, g)]

\* a task that has ended: only how it ended is kept
Ended(t, how) == [NoTask EXCEPT !.st = how, !.eff = t.eff, !.gen = t.gen]

\* light.tasks.values(), each task identified by <<light, generation>>
TaskIds(d, slot) == {<<d, slot[nm].gen>> : nm \in {x \in Names : slot[x].st # "none"}}

\* asyncio.wait: a task it still has to wait for
Pending(tk, a) == \E nm \in Names : tk[a[1]][nm].gen = a[2] /\ Running(tk[a[1]][nm])

\* ------------------------------------------------ effect.py, __call__
\* mutant: an iterator that does not start over
cycle_stuck(seq, cur) == IF cur = Len(seq) THEN cur ELSE cur + 1

\* itertools.cycle over a list: the position after yielding position cur
cycle_next(seq, cur) == IF cur = Len(seq) THEN 1 ELSE cur + 1

\* ----------------------------------- manager.py, effect_supervisor loop
\* mutant: the new task is added without cancelling the old ones
SupersedeNoCancel(slot, e, g) == add_task(slot, e, g)

\* light.cancel_tasks(); light.add_task(effect.name, effect)
Supersede(slot, e, g) == add_task(cancel_tasks(slot), e, g)

\* mutant: the loop stops after the first light
SuperviseFirst(S, ls, e) ==
    IF ls = << >> THEN S
    ELSE LET d == Head(ls)
             g == S.installs[d] + 1
             slot == Supersede(S.tasks[d], e, g)
         IN [tasks |-> [S.tasks EXCEPT ![d] = slot],
             installs |-> [S.installs EXCEPT ![d] = g],
             awaited |-> S.awaited \cup TaskIds(d, slot)]

\* for light in lights: ...; awaitables.extend(light.tasks.values())
RECURSIVE Supervise(_, _, _)
Supervise(S, ls, e) ==
    IF ls = << >> THEN S
    ELSE LET d == Head(ls)
             g == S.installs[d] + 1
             slot == Supersede(S.tasks[d], e, g)
         IN Supervise([tasks |-> [S.tasks EXCEPT ![d] = slot],
                       installs |-> [S.installs EXCEPT ![d] = g],
                       awaited |-> S.awaited \cup TaskIds(d, slot)],
                      Tail(ls), e)

Count(ls, d) == Cardinality({i \in 1..Len(ls) : ls[i] = d})

\* what every step records about itself
Rec(o, a, e, r, u) ==
    op' = o /\ arg' = a /\ exc' = e /\ ret' = r /\ upd' = u
    /\ pre' = [lights |-> lights, set |-> lightsSet]

\* a step of the event loop or of the environment, not a manager call
Quiet(o) == Rec(o, << >>, "none", << >>, NoResult)

\* a step that sends nothing to any device
NoWrites == wr' = {} /\ sent' = {} /\ dark' = dark

\* ------------------------------------------------------------ Init
Init ==
    /\ greedy \in BOOLEAN
    /\ plugged \in [Dev -> BOOLEAN]
    /\ lightsSet = FALSE
    /\ lights = << >>
    /\ tasks = [d \in Dev |-> EmptySlot]
    /\ installs = [d \in Dev |-> 0]
    /\ wr = {}
    /\ sent = {}
    /\ dark = [d \in Dev |-> FALSE]
    /\ ctx = "sync"
    /\ main = Idle
    /\ op = "init" /\ arg = << >> /\ exc = "none" /\ ret = << >> /\ upd = NoResult
    /\ pre = [lights |-> << >>, set |-> FALSE]

\* ------------------------------------------------- LightManager calls
\* selected_lights(indices), called directly
SelectedLights(ids) ==
    /\ main.pc = "idle"
    /\ LET opened == LightsProbe({})
           ls == IF lightsSet THEN lights ELSE opened
           sel == selected_lights(ls, ids)
       IN /\ tasks' = Fresh(tasks, opened)
          /\ lights' = ls
          /\ lightsSet' = TRUE
          /\ IF no_lights(sel, ids)
             THEN Rec("selected_lights", ids, "NoLightsFound", << >>, NoResult)
             ELSE Rec("selected_lights", ids, "none", sel, NoResult)
    /\ main' = Idle
    /\ NoWrites
    /\ UNCHANGED <<greedy, plugged, installs, ctx>>

\* update()
Update ==
    /\ main.pc = "idle"
    /\ LET new_lights == IF greedy THEN all_lights({}) ELSE << >>
           opened == LightsProbe(Range(new_lights))
           ls == IF lightsSet THEN lights ELSE opened
           active_lights == SelectSeq(ls, is_pluggedin)
           inactive_lights == SelectSeq(ls, is_unplugged)
       IN /\ tasks' = Fresh(tasks, new_lights \o opened)
          /\ lightsSet' = TRUE
          /\ IF greedy
             THEN /\ lights' = Extend(ls, new_lights)
                  /\ Rec("update", << >>, "none", << >>,
                         UpdateResult(new_lights, active_lights, inactive_lights))
             ELSE \* new_lights was never bound: line 126 raises
                  /\ lights' = ls
                  /\ Rec("update", << >>, "UnboundLocalError", << >>, NoResult)
    /\ main' = Idle
    /\ NoWrites
    /\ UNCHANGED <<greedy, plugged, installs, ctx>>

\* _lights after the pop loop and `del self._lights`
Released(ls) == << >>

\* mutant: the AttributeError of an unset _lights escapes
release_raises(isSet) == IF isSet THEN "none" ELSE "AttributeError"

\* what release() raises: both try blocks catch AttributeError (and the
\* first IndexError), nothing else can be raised
release_exc(isSet) == "none"

\* release(): pops every light, deletes _lights; both except clauses swallow
\* the AttributeError of an unset _lights.  No light's tasks are touched.
Release ==
    /\ main.pc = "idle"
    /\ lights' = Released(lights)
    /\ lightsSet' = FALSE
    /\ Rec("release", << >>, release_exc(lightsSet), << >>, NoResult)
    /\ main' = Idle
    /\ NoWrites
    /\ UNCHANGED <<greedy, plugged, tasks, installs, ctx>>

\* the state after the loop of effect_supervisor over ls, and the wait
Supervised(tk, e, ls, wait, timeout, viaRun) ==
    LET S == Supervise([tasks |-> tk, installs |-> installs, awaited |-> {}],
                       ls, e)
    IN /\ \A d \in Range(ls) : installs[d] + Count(ls, d) <= MaxInstalls
       /\ tasks' = S.tasks
       /\ installs' = S.installs
       /\ main' = IF S.awaited # {} /\ wait
                  THEN [pc |-> "wait", awaited |-> S.awaited, timeout |-> timeout,
                        viaRun |-> viaRun, cancelled |-> FALSE, eff |-> e]
                  ELSE [Idle EXCEPT !.eff = e]

\* await effect_supervisor(effect, lights, timeout, wait) from a coroutine
EffectSupervisor(e, ls, wait, timeout) ==
    /\ main.pc = "idle"
    /\ ctx = "async"
    /\ Supervised(tasks, e, ls, wait, timeout, FALSE)
    /\ Rec("effect_supervisor", << >>, "none", ls, NoResult)
    /\ NoWrites
    /\ UNCHANGED <<greedy, plugged, lightsSet, lights, ctx>>

\* apply_effect(effect, light_ids, timeout): asyncio.run of the supervisor.
\* asyncio.run needs a thread with no running loop, hence ctx = "sync".
ApplyEffect(e, ids, timeout) ==
    /\ main.pc = "idle"
    /\ ctx = "sync"
    /\ LET opened == LightsProbe({})
           ls == IF lightsSet THEN lights ELSE opened
           sel == selected_lights(ls, ids)
       IN /\ lights' = ls
          /\ lightsSet' = TRUE
          /\ IF no_lights(sel, ids)
             THEN /\ Rec("apply_effect", << >>, "NoLightsFound", << >>, NoResult)
                  /\ tasks' = Fresh(tasks, opened)
                  /\ main' = Idle
                  /\ UNCHANGED installs
             ELSE /\ Supervised(Fresh(tasks, opened), e, sel, TRUE, timeout, TRUE)
                  /\ Rec("apply_effect", << >>, "none", sel, NoResult)
    /\ NoWrites
    /\ UNCHANGED <<greedy, plugged, ctx>>

\* mutant: asyncio.run leaves the tasks of its loop running
CancelNone(tk) == tk

\* asyncio.run on exit: every task still on the loop is cancelled; the
\* lights keep the cancelled tasks in their maps.
CancelAll(tk) ==
    [d \in Dev |-> [nm \in Names |->
        IF Running(tk[d][nm]) THEN Ended(tk[d][nm], "cancelled")
        ELSE tk[d][nm]]]

\* the colours a caller passes to on()
OnColors == {1, 2}

\* `for light in lights: light.<write>()` with no try/except: the lights
\* the loop got through before a write raised
RECURSIVE Served(_)
Served(ls) ==
    IF ls = << >> THEN << >>
    ELSE IF write_raises(Head(ls)) THEN << >>
    ELSE <<Head(ls)>> \o Served(Tail(ls))

\* awaitables.extend(light.tasks.values()) for each light the loop served
Awaitables(tk, ls) == UNION {TaskIds(d, tk[d]) : d \in Range(ls)}

\* the loop of on_supervisor over ls, and the wait
Lit(tk, c, ls, wait, timeout, viaRun) ==
    LET done == Served(ls)
        awaited == Awaitables(tk, done)
    IN /\ sent' = {[d |-> d, lit |-> TRUE, c |-> c] : d \in Range(done)}
       /\ dark' = [d \in Dev |-> IF d \in Range(done) THEN FALSE ELSE dark[d]]
       /\ wr' = {}
       /\ main' = IF done = ls /\ awaited # {} /\ wait
                  THEN [pc |-> "wait", awaited |-> awaited, timeout |-> timeout,
                        viaRun |-> viaRun, cancelled |-> FALSE, eff |-> "Empty"]
                  ELSE Idle

\* the exception of a call that selected sel and looped over it
LoopExc(sel, ids) ==
    IF no_lights(sel, ids) THEN "NoLightsFound"
    ELSE IF Served(sel) # sel THEN "LightUnavailable"
    ELSE "none"

\* await on_supervisor(color, lights, timeout, wait) from a coroutine
OnSupervisor(c, ls, wait, timeout) ==
    /\ main.pc = "idle"
    /\ ctx = "async"
    /\ ls # << >>
    /\ Lit(tasks, c, ls, wait, timeout, FALSE)
    /\ Rec("on_supervisor", <<c, ls>>, LoopExc(ls, ls), ls, NoResult)
    /\ UNCHANGED <<greedy, plugged, lightsSet, lights, tasks, installs, ctx>>

\* on(color, light_ids, timeout): asyncio.run of on_supervisor over the
\* selection; nothing is looped over when selected_lights raised.
On(c, ids, timeout) ==
    /\ main.pc = "idle"
    /\ ctx = "sync"
    /\ LET opened == LightsProbe({})
           ls == IF lightsSet THEN lights ELSE opened
           sel == selected_lights(ls, ids)
       IN /\ lights' = ls
          /\ lightsSet' = TRUE
          /\ tasks' = Fresh(tasks, opened)
          /\ Lit(Fresh(tasks, opened), c, sel, TRUE, timeout, TRUE)
          /\ Rec("on", <<c, ids>>, LoopExc(sel, ids), sel, NoResult)
    /\ UNCHANGED <<greedy, plugged, installs, ctx>>

\* mutant: the loop of off() cancels the tasks of each light it turns off
OffLoopCancels(tk, ls) ==
    [d \in Dev |-> IF d \in Range(ls) THEN cancel_tasks(tk[d]) ELSE tk[d]]

\* `for light in self.selected_lights(lights): light.off()`: the task maps
\* after the loop got through the lights ls
OffLoop(tk, ls) ==
    [d \in Dev |-> IF d \in Range(ls) THEN off_slot(tk[d]) ELSE tk[d]]

\* off(lights): a plain method, callable with or without a running loop
Off(ids) ==
    /\ main.pc = "idle"
    /\ LET opened == LightsProbe({})
           ls == IF lightsSet THEN lights ELSE opened
           sel == selected_lights(ls, ids)
           done == Served(sel)
       IN /\ lights' = ls
          /\ lightsSet' = TRUE
          /\ tasks' = OffLoop(Fresh(tasks, opened), done)
          /\ sent' = {[d |-> d, lit |-> FALSE, c |-> 0] : d \in Range(done)}
          /\ dark' = [d \in Dev |-> IF d \in Range(done) THEN TRUE ELSE dark[d]]
          /\ wr' = {}
          /\ Rec("off", <<ids>>, LoopExc(sel, ids), sel, NoResult)
    /\ main' = Idle
    /\ UNCHANGED <<greedy, plugged, installs, ctx>>

\* asyncio.wait returns: every awaited task is done, or the timeout elapsed;
\* under apply_effect asyncio.run then cancels what is left on its loop.
WaitReturn ==
    /\ main.pc = "wait"
    /\ main.timeout \/ \A a \in main.awaited : ~Pending(tasks, a)
    /\ main' = [Idle EXCEPT !.timeout = main.timeout, !.cancelled = main.cancelled]
    /\ tasks' = IF main.viaRun THEN CancelAll(tasks) ELSE tasks
    /\ Quiet("wait_return")
    /\ NoWrites
    /\ UNCHANGED <<greedy, plugged, lightsSet, lights, installs, ctx>>

\* --------------------------------------------------- the event loop
LoopRunning == ctx = "async" \/ main.pc = "wait"

\* what the caller's record keeps once a later step has happened
Rest == IF main.pc = "idle" THEN Idle ELSE main

\* the task after `light.on(color); await asyncio.sleep(self.duty_cycle)`
Wrote(t) ==
    [t EXCEPT !.pc = "sleep",
              !.cur = cycle_next(colors(t.eff), t.cur),
              !.n = t.n + 1,
              !.sleeps = IF t.pc = "sleep" THEN t.sleeps + 1 ELSE t.sleeps]

\* One resumption of BaseEffect.__call__: from its start or from the sleep
\* to the next sleep.  cycle() of an empty list is exhausted at once and the
\* coroutine returns; a write to an unplugged light raises and ends the task.
TaskStep(d, nm) ==
    LET t == tasks[d][nm]
        seq == colors(t.eff)
    IN /\ LoopRunning
       /\ Running(t)
       /\ t.n < MaxFrames
       /\ IF seq = << >>
          THEN /\ tasks' = [tasks EXCEPT ![d][nm] = Ended(t, "finished")]
               /\ NoWrites
          ELSE IF ~is_pluggedin(d)
          THEN /\ tasks' = [tasks EXCEPT ![d][nm] = Ended(t, "failed")]
               /\ NoWrites
          ELSE /\ tasks' = [tasks EXCEPT ![d][nm] = Wrote(t)]
               /\ wr' = {[d |-> d, c |-> seq[t.cur], eff |-> t.eff,
                          gen |-> t.gen, inst |-> installs[d], k |-> t.n + 1,
                          afterOff |-> dark[d]]}
               /\ sent' = {}
               /\ dark' = [dark EXCEPT ![d] = FALSE]
       /\ Quiet("task")
       /\ main' = Rest
       /\ UNCHANGED <<greedy, plugged, lightsSet, lights, installs, ctx>>

\* another coroutine calls light.cancel_tasks()
ExternalCancel(d) ==
    /\ ctx = "async"
    /\ \E nm \in Names : tasks[d][nm].st # "none"
    /\ tasks' = [tasks EXCEPT ![d] = cancel_tasks(tasks[d])]
    /\ main' = IF main.pc = "wait"
               THEN [main EXCEPT !.cancelled =
                       @ \/ \E a \in main.awaited : a[1] = d /\ Pending(tasks, a)]
               ELSE Idle
    /\ Quiet("cancel_tasks")
    /\ NoWrites
    /\ UNCHANGED <<greedy, plugged, lightsSet, lights, installs, ctx>>

\* the caller enters asyncio.run(main())
EnterLoop ==
    /\ ctx = "sync"
    /\ main.pc = "idle"
    /\ ctx' = "async"
    /\ main' = Idle
    /\ Quiet("enter_loop")
    /\ NoWrites
    /\ UNCHANGED <<greedy, plugged, lightsSet, lights, tasks, installs>>

\* ... and leaves it: asyncio.run cancels the tasks left on the loop
ExitLoop ==
    /\ ctx = "async"
    /\ main.pc = "idle"
    /\ ctx' = "sync"
    /\ tasks' = CancelAll(tasks)
    /\ main' = Idle
    /\ Quiet("exit_loop")
    /\ NoWrites
    /\ UNCHANGED <<greedy, plugged, lightsSet, lights, installs>>

\* ----------------------------------------------------- environment
Plug(d) ==
    /\ ~plugged[d]
    /\ plugged' = [plugged EXCEPT ![d] = TRUE]
    /\ main' = Rest
    /\ Quiet("plug")
    /\ NoWrites
    /\ UNCHANGED <<greedy, lightsSet, lights, tasks, installs, ctx>>

Unplug(d) ==
    /\ plugged[d]
    /\ plugged' = [plugged EXCEPT ![d] = FALSE]
    /\ main' = Rest
    /\ Quiet("unplug")
    /\ NoWrites
    /\ UNCHANGED <<greedy, lightsSet, lights, tasks, installs, ctx>>

\* how a caller may wait: not at all, without a timeout, with a timeout
WaitModes == {<<FALSE, FALSE>>, <<TRUE, FALSE>>, <<TRUE, TRUE>>}

\* ------------------------------ effects on lights that stay plugged in
InitEffects ==
    /\ Init
    /\ greedy
    /\ \A d \in Dev : plugged[d]

NextEffects ==
    \/ \E ids \in SeqsUpTo(0..NDev, 1) : SelectedLights(ids)
    \/ Release
    \/ \E e \in Names, ls \in SeqsUpTo(Range(lights), MaxIds), w \in WaitModes :
          EffectSupervisor(e, ls, w[1], w[2])
    \/ \E e \in Names, ids \in SeqsUpTo(0..NDev, MaxIds), timeout \in BOOLEAN :
          ApplyEffect(e, ids, timeout)
    \/ WaitReturn
    \/ \E d \in Dev, nm \in Names : TaskStep(d, nm)
    \/ \E d \in Dev : ExternalCancel(d)
    \/ EnterLoop
    \/ ExitLoop

SpecEffects == InitEffects /\ [][NextEffects]_vars

\* ------------------------------------- discovery with hot-plugging
NextDiscovery ==
    \/ \E ids \in SeqsUpTo(Idx, MaxIds) : SelectedLights(ids)
    \/ Update
    \/ Release
    \/ \E d \in Dev : Plug(d)
    \/ \E d \in Dev : Unplug(d)

SpecDiscovery == Init /\ [][NextDiscovery]_vars

\* ------------------------------------------- looking effects up by name
ForName(str) ==
    /\ LET found == for_name(str)
       IN IF found = "ValueError"
          THEN Rec("for_name", str, "ValueError", << >>, NoResult)
          ELSE Rec("for_name", str, "none", <<found>>, NoResult)
    /\ NoWrites
    /\ UNCHANGED <<greedy, plugged, lightsSet, lights, tasks, installs, ctx, main>>

NextLookup == \E str \in SeqsUpTo(Char, MaxName) : ForName(str)

SpecLookup == InitEffects /\ [][NextLookup]_vars

\* -------------------- group calls on lights that may be unplugged
\* one effect is enough for the group calls
GroupNames == {"Blink"}

NextGroup ==
    \/ \E c \in OnColors, ids \in SeqsUpTo(0..NDev, MaxIds) : On(c, ids, FALSE)
    \/ \E c \in OnColors, ls \in SeqsUpTo(Range(lights), MaxIds), w \in WaitModes :
          OnSupervisor(c, ls, w[1], w[2])
    \/ \E ids \in SeqsUpTo(0..NDev, MaxIds) : Off(ids)
    \/ \E e \in GroupNames, ls \in SeqsUpTo(Range(lights), MaxIds), w \in WaitModes :
          EffectSupervisor(e, ls, w[1], w[2])
    \/ \E e \in GroupNames, ids \in SeqsUpTo(0..NDev, MaxIds), timeout \in BOOLEAN :
          ApplyEffect(e, ids, timeout)
    \/ WaitReturn
    \/ \E d \in Dev, nm \in Names : TaskStep(d, nm)
    \/ EnterLoop
    \/ ExitLoop
    \/ \E d \in Dev : Unplug(d)

SpecGroup == InitEffects /\ [][NextGroup]_vars

TypeOK ==
    /\ greedy \in BOOLEAN
    /\ plugged \in [Dev -> BOOLEAN]
    /\ lights \in Seq(Dev)
    /\ ctx \in {"sync", "async"}
    /\ main.pc \in {"idle", "wait"}
    /\ \A d \in Dev : installs[d] \in 0..MaxInstalls

\* ===================================================================
\* Properties
\* ===================================================================

\* C1: once effect_supervisor has installed a new task on a light, no colour
\* write of a superseded effect loop reaches that light: every write a task
\* makes comes from the task installed last on its light.
NoStaleWrite == \A w \in wr : w.gen = w.inst

\* C1 witness: the task of a second effect_supervisor call on a light is
\* writing its second frame.
SecondTaskWrites == \E w \in wr : w.gen = 2 /\ w.k = 2

\* C2: every light's task map holds at most one running task, a running
\* task is the one installed last, and right after apply_effect or
\* effect_supervisor each selected light runs a new task of that call's effect.
OneTaskPerLight ==
    \A d \in Dev :
        /\ Cardinality({nm \in Names : Running(tasks[d][nm])}) <= 1
        /\ \A nm \in Names : Running(tasks[d][nm]) => tasks[d][nm].gen = installs[d]
        /\ (op \in {"effect_supervisor", "apply_effect"} /\ exc = "none"
                /\ d \in Range(ret))
           => tasks[d][name(main.eff)] = NewTask(main.eff, installs[d])

\* C2 witness: a call has just replaced the task of one light and installed
\* a task on another.
SupersededOnOneOfTwo ==
    /\ op \in {"effect_supervisor", "apply_effect"}
    /\ Cardinality(Range(ret)) = 2
    /\ \E d \in Range(ret) : installs[d] = 2

\* C3: the k-th write of one run of an effect loop over a non-empty colour
\* sequence is seq[(k-1) mod len], a run starts at seq[0], and a run that has
\* made n writes and is suspended has completed exactly n-1 suspensions.
CycleOrder ==
    /\ \A w \in wr :
          colors(w.eff) # << >> =>
              w.c = colors(w.eff)[((w.k - 1) % Len(colors(w.eff))) + 1]
    /\ \A d \in Dev, nm \in Names :
          LET t == tasks[d][nm]
          IN Running(t) =>
                /\ t.pc = "new" => t.n = 0 /\ t.cur = 1
                /\ t.pc = "sleep" => t.n >= 1 /\ t.sleeps = t.n - 1

\* C3 witness: the second run of a loop on a light writes its third frame of
\* a two-colour sequence, wrapping around to the first colour.
SecondRunWraps ==
    \E w \in wr : w.eff = "Blink" /\ w.gen = 2 /\ w.k = MaxFrames /\ w.k >= 3

\* C4: an effect loop never ends on its own, and effect_supervisor waiting
\* without a timeout returns only after an awaited task was cancelled.
LoopsEndOnlyByCancel ==
    /\ \A d \in Dev, nm \in Names :
          tasks[d][nm].st \in {"none", "running", "cancelled"}
    /\ (op = "wait_return" /\ ~main.timeout) => main.cancelled

\* C5: when release() has returned no task of any light is running, and the
\* list of lights is gone.
ReleaseStopsTasks ==
    op = "release" =>
        /\ \A d \in Dev : ~HasRunning(d)
        /\ ~lightsSet /\ lights = << >>

NonGreedyUpdateReturns ==
    (op = "update" /\ ~greedy) =>
        exc = "none" /\ upd[1] = 0 /\ lights = pre.lights

\* every plugged-in device was tracked before the call
NothingNewPlugged == \A d \in Dev : plugged[d] => d \in Range(pre.lights)

\* C8: a greedy update() with no untracked device plugged in returns
\* countNew = 0, leaves the list as it was, and the list has no light twice.
UpdateFindsNothingNew ==
    (op = "update" /\ greedy /\ NothingNewPlugged) =>
        exc = "none" /\ upd[1] = 0 /\ lights = pre.lights /\ NoDup(lights)

\* C8 witness: such an update() on a manager tracking every device.
UpdatedAllTracked ==
    op = "update" /\ greedy /\ NothingNewPlugged /\ Len(pre.lights) = NDev

\* C9: the list before update() is a prefix of the list after it, and what
\* is appended was not tracked before.
UpdateKeepsIndices ==
    op = "update" =>
        /\ IsPrefix(pre.lights, lights)
        /\ \A i \in (Len(pre.lights) + 1)..Len(lights) :
              lights[i] \notin Range(pre.lights)

\* C9 witness: update() has appended a light behind one already tracked.
UpdateAppended ==
    op = "update" /\ Len(pre.lights) >= 1 /\ Len(lights) > Len(pre.lights)

\* C10: selected_lights with an empty index list on a manager tracking at
\* least one light returns every tracked light once, in tracked order.
SelectAll ==
    (op = "selected_lights" /\ arg = << >> /\ Len(lights) >= 1) =>
        exc = "none" /\ ret = lights /\ NoDup(ret)

\* C10 witness: such a call on a manager tracking two lights.
SelectedAllOfTwo ==
    op = "selected_lights" /\ arg = << >> /\ Len(lights) = 2 /\ ret = lights

\* C11: selected_lights with a non-empty index list returns the lights at
\* the given indices that are positions 0..k-1, in the order given, and skips
\* every other index.
SelectsValidPositions ==
    (op = "selected_lights" /\ arg # << >>) =>
        LET Valid(i) == 0 <= i /\ i < Len(lights)
            valid == SelectSeq(arg, Valid)
            want == [j \in 1..Len(valid) |-> lights[valid[j] + 1]]
        IN IF want = << >> THEN exc = "NoLightsFound"
           ELSE exc = "none" /\ ret = want

Untouched(d, nm) ==
    \/ tasks'[d][nm] = tasks[d][nm]
    \/ ~Running(tasks[d][nm]) /\ tasks'[d][nm] = NoTask

\* C13: when on(), apply_effect() or off() fails with NoLightsFound, no
\* device receives a colour write or a turn-off, no task is installed and no
\* task slot changes.
NoLightsFoundTouchesNothing ==
    [][(op' \in {"on", "apply_effect", "off"} /\ exc' = "NoLightsFound") =>
          /\ wr' = {} /\ sent' = {} /\ dark' = dark
          /\ installs' = installs
          /\ \A d \in Dev, nm \in Names : Untouched(d, nm)]_vars

\* C13 witness: off() failed with NoLightsFound while an effect task was
\* running on a light.
OffFailedWhileRunning ==
    op = "off" /\ exc = "NoLightsFound" /\ \E d \in Dev : HasRunning(d)

\* C14: on()/on_supervisor writes the colour to every selected light and to
\* no other device.
OnWritesSelection ==
    (op \in {"on", "on_supervisor"} /\ exc # "NoLightsFound") =>
        sent = {[d |-> d, lit |-> TRUE, c |-> arg[1]] : d \in Range(ret)}

\* a wait just returned by timeout: an awaited task was still running
TimedOut ==
    /\ op' = "wait_return"
    /\ main.pc = "wait"
    /\ \E a \in main.awaited : Pending(tasks, a)

FailuresIsolated ==
    /\ op \in {"on", "on_supervisor", "off"} =>
          \A d \in Range(ret) : is_pluggedin(d) => \E m \in sent : m.d = d
    /\ (op \in {"effect_supervisor", "apply_effect"} /\ exc = "none") =>
          \A d \in Range(ret) : tasks[d][main.eff].gen = installs[d]

\* letter for letter the same, whatever the case
SameLetters(a, b) ==
    Len(a) = Len(b) /\ \A i \in 1..Len(a) : a[i][1] = b[i][1]

\* C17: for_name returns the effect class whose name is the query up to
\* letter case, and fails with the unknown-effect error (ValueError) when no
\* class has such a name.
LookupIgnoresCase ==
    op = "for_name" =>
        /\ \A V \in Names : SameLetters(arg, ClassName(V)) =>
              exc = "none" /\ ret = <<V>>
        /\ (\A V \in Names : ~SameLetters(arg, ClassName(V))) =>
              exc = "ValueError" /\ ret = << >>

\* C17 witness: the query "bL" found Blink.
FoundInOtherCase ==
    /\ op = "for_name" /\ ret = <<"Blink">>
    /\ arg = <<<<"b", FALSE>>, <<"l", TRUE>>>>

\* C18: off() leaves the task of every light as it was, so an effect running
\* on a light that is turned off stays running and its next frame writes to
\* the light again.
OffKeepsTasks ==
    [][op' = "off" =>
          /\ installs' = installs
          /\ \A d \in Dev, nm \in Names :
                /\ Untouched(d, nm)
                /\ Running(tasks[d][nm]) => Running(tasks'[d][nm])]_vars

\* C18 witness: an effect task writes a frame to a light that off() had
\* turned off.
FrameAfterOff == \E w \in wr : w.afterOff

\* C19: no effect with an empty colour sequence exists, so none is ever
\* installed as a task: such an effect is rejected when it is constructed.
NoEmptyEffect ==
    \A d \in Dev, nm \in Names :
        tasks[d][nm].st # "none" => colors(tasks[d][nm].eff) # << >>

\* C20: update() returns (countNew, countActive, countInactive) where the
\* lights tracked before are counted as active when present and inactive
\* when absent, the two counts add up to the number tracked before, and the
\* list grows by exactly countNew.
UpdateCounts ==
    op = "update" =>
        /\ exc = "none"
        /\ upd[2] = Cardinality({i \in 1..Len(pre.lights) : plugged[pre.lights[i]]})
        /\ upd[2] + upd[3] = Len(pre.lights)
        /\ Len(lights) = Len(pre.lights) + upd[1]
====
